---- MODULE Spec2Model ----
(***************************************************************************)
(* crabby_kv: a pool of IO threads that parse raw command lines taken from *)
(* one shared mpsc channel, and a single main thread that owns the         *)
(* key/value store and applies the parsed commands (src/src/thread.rs,     *)
(* src/src/parser.rs, src/src/handler.rs, src/src/main.rs).                *)
(*                                                                         *)
(* A raw line is a sequence of pieces: a piece is either the whitespace    *)
(* character " " or a maximal run of non-whitespace characters (a word).   *)
(***************************************************************************)
EXTENDS Integers, Sequences, FiniteSets, TLC

\* ------------------------------------------------------------------ bounds
MaxIoThreads == 2
MaxSubmit == 2
MaxSenders == 1
MaxTokens == 4

\* ------------------------------------------------------------ input lines
LineSet == <<"SET", " ", "k1", " ", "v1">>
LineGet == <<"GET", " ", "k1">>
LineInvalid == <<"INVALID", " ", "foo">>
LineBlank == <<" ", " ">>

\* the raw lines a caller submits in this model
Lines == {LineSet, LineGet, LineInvalid, LineBlank}

\* ------------------------------------------------------------------ state
VARIABLES
    numIo,            \* num_io_threads given to ThreadPool::new
    ioPc,             \* per IO thread: "lock", "recv", "process", "exited"
    ioHeld,           \* per IO thread: the (raw_string, line_number) or CommandMessage in hand
    ioStatus,         \* per IO thread: "running", "Closed" (channel disconnected), "Aborted"
    string_rx_lock,   \* holder of the Mutex around string_rx, or NoOwner
    string_chan,      \* buffered (raw_string, line_number) pairs of the string channel
    string_sender,    \* the pool's own string_sender is alive
    senders,          \* clones of string_sender alive outside the pool
    command_chan,     \* buffered CommandMessages of the command channel
    command_tx,       \* the original command_tx of ThreadPool::new is alive
    main_thread,      \* ThreadPool.main_thread: "Some", "None" (taken), "Dropped"
    mainPc,           \* MainThread::run: "unspawned", "recv", "done"
    main_spawned,     \* number of threads spawned by MainThread::start
    main_handle,      \* JoinHandle returned by start_main_thread: "none", "held", "joined"
    store,            \* CommandHandler.store
    processed_count,  \* processed_count of MainThread::run
    poolState,        \* "live", "joining" (inside shutdown), "returned"
    joinIdx,          \* index of the next handle joined by shutdown
    line_num,         \* line counter of the submitting caller
    start_panicked,   \* a call of start_main_thread panicked: "Main thread already started"
    send_failed,      \* line numbers whose send returned Err
    sent,             \* history: raw lines submitted, by line number
    dequeued,         \* history: line number -> IO threads that received it, in order
    dispatched,       \* history: CommandMessages sent to the command channel, in order
    parse_errors,     \* stderr of the IO threads: reported parse errors
    skipped,          \* history: line numbers skipped as empty lines
    recv_after_close, \* history: some recv returned Ok after the last Sender of the string channel was dropped
    main_log,         \* stdout/stderr of the main thread: one entry per processed message
    parse_tokens,     \* parser harness: the words of the line handed to from_str
    parse_line,       \* parser harness: the line handed to from_str
    parse_result      \* parser harness: what from_str returned, or NotParsed

poolVars == <<numIo, ioPc, ioHeld, ioStatus, string_rx_lock, string_chan, string_sender,
              senders, command_chan, command_tx, main_thread, mainPc, main_spawned,
              main_handle, store, processed_count, poolState, joinIdx, line_num,
              start_panicked, send_failed, sent, dequeued, dispatched,
              parse_errors, skipped, recv_after_close, main_log>>

parserVars == <<parse_tokens, parse_line, parse_result>>

vars == <<poolVars, parserVars>>

NotParsed == [ok |-> FALSE, err |-> "not parsed"]

NoOwner == -1
NoItem == <<>>
IoIds == 0 .. (numIo - 1)

\* ----------------------------------------------------------------- parser
\* char::is_whitespace, as used by trim and split_whitespace
IsWhitespace(p) == p \in {" ", "\t"}

RECURSIVE TrimStart(_)
TrimStart(s) ==
    IF s = <<>> THEN <<>>
    ELSE IF IsWhitespace(Head(s)) THEN TrimStart(Tail(s)) ELSE s

RECURSIVE TrimEnd(_)
TrimEnd(s) ==
    IF s = <<>> THEN <<>>
    ELSE IF IsWhitespace(s[Len(s)]) THEN TrimEnd(SubSeq(s, 1, Len(s) - 1)) ELSE s

Trim(s) == TrimEnd(TrimStart(s))

SplitWhitespace(s) == SelectSeq(s, LAMBDA p : ~IsWhitespace(p))

RECURSIVE Join(_)
Join(ws) ==
    IF ws = <<>> THEN <<>>
    ELSE IF Len(ws) = 1 THEN <<ws[1]>>
    ELSE <<ws[1], " ">> \o Join(Tail(ws))

CmdSet(k, v) == [type |-> "Set", key |-> k, value |-> v]
CmdGet(k) == [type |-> "Get", key |-> k]
CmdDelete(k) == [type |-> "Delete", key |-> k]

\* faulty variant of FromStr: GET ignores what follows the key
FromStrLooseGet(line) ==
    LET trimmed == Trim(line)
        parts == SplitWhitespace(trimmed)
    IN  IF trimmed = <<>> THEN [ok |-> FALSE, err |-> "Empty line"]
        ELSE IF Len(parts) >= 3 /\ parts[1] = "SET"
             THEN [ok |-> TRUE,
                   command |-> CmdSet(parts[2], Join(SubSeq(parts, 3, Len(parts))))]
        ELSE IF Len(parts) >= 2 /\ parts[1] = "GET"
             THEN [ok |-> TRUE, command |-> CmdGet(parts[2])]
        ELSE IF Len(parts) = 2 /\ parts[1] = "DELETE"
             THEN [ok |-> TRUE, command |-> CmdDelete(parts[2])]
        ELSE [ok |-> FALSE, err |-> "Invalid command"]

FromStr(line) ==
    LET trimmed == Trim(line)
        parts == SplitWhitespace(trimmed)
    IN  IF trimmed = <<>> THEN [ok |-> FALSE, err |-> "Empty line"]
        ELSE IF Len(parts) >= 3 /\ parts[1] = "SET"
             THEN [ok |-> TRUE,
                   command |-> CmdSet(parts[2], Join(SubSeq(parts, 3, Len(parts))))]
        ELSE IF Len(parts) = 2 /\ parts[1] = "GET"
             THEN [ok |-> TRUE, command |-> CmdGet(parts[2])]
        ELSE IF Len(parts) = 2 /\ parts[1] = "DELETE"
             THEN [ok |-> TRUE, command |-> CmdDelete(parts[2])]
        ELSE [ok |-> FALSE, err |-> "Invalid command"]

\* ---------------------------------------------------------------- handler
EmptyStore == [k \in {} |-> <<>>]

\* faulty variant of handle_delete: the key is looked up but not removed
handle_delete_get(s, key) ==
    IF key \in DOMAIN s
    THEN [store |-> s,
          result |-> [ok |-> TRUE, op |-> "DELETED", key |-> key, value |-> s[key]]]
    ELSE [store |-> s, result |-> [ok |-> FALSE, err |-> "KeyNotFound", key |-> key]]

\* faulty variant of handle_set: the map is replaced by the one new entry
handle_set_replace(s, key, value) ==
    [store |-> [k \in {key} |-> value],
     result |-> [ok |-> TRUE, op |-> "SET", key |-> key, value |-> value]]

handle_set(s, key, value) ==
    [store |-> [k \in (DOMAIN s) \cup {key} |-> IF k = key THEN value ELSE s[k]],
     result |-> [ok |-> TRUE, op |-> "SET", key |-> key, value |-> value]]

handle_get(s, key) ==
    IF key \in DOMAIN s
    THEN [store |-> s, result |-> [ok |-> TRUE, op |-> "GET", key |-> key, value |-> s[key]]]
    ELSE [store |-> s, result |-> [ok |-> FALSE, err |-> "KeyNotFound", key |-> key]]

handle_delete(s, key) ==
    IF key \in DOMAIN s
    THEN [store |-> [k \in (DOMAIN s) \ {key} |-> s[k]],
          result |-> [ok |-> TRUE, op |-> "DELETED", key |-> key, value |-> s[key]]]
    ELSE [store |-> s, result |-> [ok |-> FALSE, err |-> "KeyNotFound", key |-> key]]

process_command(s, command) ==
    IF command.type = "Set" THEN handle_set(s, command.key, command.value)
    ELSE IF command.type = "Get" THEN handle_get(s, command.key)
    ELSE handle_delete(s, command.key)

\* --------------------------------------------------------------- channels
\* std::sync::mpsc: recv returns the oldest buffered item; it fails only when
\* nothing is buffered and every Sender is dropped; send fails only when the
\* Receiver is dropped.
\* faulty variant of StringSenders: clones handed out by get_string_sender do not count
StringSendersPoolOnly == IF string_sender THEN 1 ELSE 0

StringSenders == (IF string_sender THEN 1 ELSE 0) + senders

IoAlive == {i \in IoIds : ioPc[i] # "exited"}

CommandSenders == Cardinality(IoAlive) + (IF command_tx THEN 1 ELSE 0)

\* faulty variant of StringRxAlive: the string channel refuses sends as soon as
\* shutdown has dropped the pool's own string_sender
StringRxAliveUntilShutdown == string_sender

\* the Arc<Mutex<Receiver>> lives as long as one IO thread closure holds it
StringRxAlive == IoAlive # {}

\* command_rx lives in pool.main_thread until taken, then in the running main thread
CommandRxAlive == main_thread = "Some" \/ mainPc = "recv"

\* faulty variant of StringSend: the channel hands out the newest item first
StringSendFront(q, unit) == <<unit>> \o q

StringSend(q, unit) == Append(q, unit)

\* faulty variant of StringRecvRest: the received item stays buffered
StringRecvPeek(q) == q

StringRecvRest(q) == Tail(q)

\* faulty variant of StringRecvErr: disconnection reported while items are buffered
StringRecvErrIgnoreBuffered == StringSenders = 0

StringRecvErr == string_chan = <<>> /\ StringSenders = 0

\* faulty variant of CommandSend: the newest message is delivered first
CommandSendFront(q, msg) == <<msg>> \o q

CommandSend(q, msg) == Append(q, msg)

\* faulty variant of CommandRecvErr: disconnection reported while messages are buffered
CommandRecvErrIgnoreBuffered == CommandSenders = 0

CommandRecvErr == command_chan = <<>> /\ CommandSenders = 0

\* ------------------------------------------------------------- ThreadPool
\* faulty variant of ThreadPoolNew: the original command_tx is never dropped
ThreadPoolNewKeepCommandTx(n) ==
    [io_threads |-> [i \in 0 .. (n - 1) |-> "lock"],
     main_thread |-> "Some",
     string_sender |-> TRUE,
     command_tx |-> TRUE]

ThreadPoolNew(n) ==
    [io_threads |-> [i \in 0 .. (n - 1) |-> "lock"],
     main_thread |-> "Some",
     string_sender |-> TRUE,
     command_tx |-> FALSE]

\* the pool after ThreadPool::new(n)
PoolInit ==
    \E n \in 1 .. MaxIoThreads :
        LET pool == ThreadPoolNew(n) IN
        /\ numIo = n
        /\ ioPc = pool.io_threads
        /\ ioHeld = [i \in DOMAIN pool.io_threads |-> NoItem]
        /\ ioStatus = [i \in DOMAIN pool.io_threads |-> "running"]
        /\ string_rx_lock = NoOwner
        /\ string_chan = <<>>
        /\ string_sender = pool.string_sender
        /\ senders = 0
        /\ command_chan = <<>>
        /\ command_tx = pool.command_tx
        /\ main_thread = pool.main_thread
        /\ mainPc = "unspawned"
        /\ main_spawned = 0
        /\ main_handle = "none"
        /\ store = EmptyStore
        /\ processed_count = 0
        /\ poolState = "live"
        /\ joinIdx = 0
        /\ line_num = 0
        /\ start_panicked = FALSE
        /\ send_failed = {}
        /\ sent = <<>>
        /\ dequeued = <<>>
        /\ dispatched = <<>>
        /\ parse_errors = {}
        /\ skipped = {}
        /\ recv_after_close = FALSE
        /\ main_log = <<>>

Init ==
    /\ PoolInit
    /\ parse_tokens = <<>>
    /\ parse_line = <<>>
    /\ parse_result = NotParsed

\* pool.get_string_sender(): one more clone of string_sender
GetStringSender ==
    /\ poolState = "live"
    /\ senders < MaxSenders
    /\ senders' = senders + 1
    /\ UNCHANGED <<numIo, ioPc, ioHeld, ioStatus, string_rx_lock, string_chan,
                   string_sender, command_chan, command_tx, main_thread, mainPc,
                   main_spawned, main_handle, store, processed_count, poolState,
                   joinIdx, line_num, start_panicked, send_failed, sent, dequeued,
                   dispatched, parse_errors, main_log, skipped, recv_after_close, parserVars>>

\* sender.send((line, line_num)) on a clone, after line_num += 1
SubmitLine(raw) ==
    /\ senders > 0
    /\ line_num' = line_num + 1
    /\ sent' = Append(sent, raw)
    /\ dequeued' = Append(dequeued, <<>>)
    /\ IF StringRxAlive
       THEN /\ string_chan' = StringSend(string_chan, [raw |-> raw, line_number |-> line_num + 1])
            /\ UNCHANGED send_failed
       ELSE /\ send_failed' = send_failed \cup {line_num + 1}
            /\ UNCHANGED string_chan
    /\ UNCHANGED <<numIo, ioPc, ioHeld, ioStatus, string_rx_lock, string_sender,
                   senders, command_chan, command_tx, main_thread, mainPc, main_spawned,
                   main_handle, store, processed_count, poolState, joinIdx,
                   start_panicked, dispatched, parse_errors, main_log, skipped,
                   recv_after_close, parserVars>>

\* one line read from stdin or the input file and sent
Submit(raw) ==
    /\ line_num < MaxSubmit
    /\ SubmitLine(raw)

\* drop(sender) of a clone
DropSender ==
    /\ senders > 0
    /\ senders' = senders - 1
    /\ UNCHANGED <<numIo, ioPc, ioHeld, ioStatus, string_rx_lock, string_chan,
                   string_sender, command_chan, command_tx, main_thread, mainPc,
                   main_spawned, main_handle, store, processed_count, poolState,
                   joinIdx, line_num, start_panicked, send_failed, sent, dequeued,
                   dispatched, parse_errors, main_log, skipped, recv_after_close, parserVars>>

\* faulty variant of TakeMainThread: the Option keeps its value
TakeKeepsMainThread(mt) == mt

\* Option::take leaves None behind
TakeMainThread(mt) == "None"

\* faulty variant of StartMainThread: the main thread starts on an empty channel,
\* what was buffered before the start is gone
StartMainThreadEmptyChannel ==
    /\ poolState = "live"
    /\ IF main_thread = "Some"
       THEN /\ main_thread' = TakeMainThread(main_thread)
            /\ mainPc' = "recv"
            /\ main_spawned' = main_spawned + 1
            /\ main_handle' = "held"
            /\ command_chan' = <<>>
            /\ UNCHANGED start_panicked
       ELSE /\ start_panicked' = TRUE
            /\ UNCHANGED <<main_thread, mainPc, main_spawned, main_handle, command_chan>>
    /\ UNCHANGED <<numIo, ioPc, ioHeld, ioStatus, string_rx_lock, string_chan,
                   string_sender, senders, command_tx, store,
                   processed_count, poolState, joinIdx, line_num, send_failed, sent,
                   dequeued, dispatched, parse_errors, main_log, skipped,
                   recv_after_close, parserVars>>

\* pool.start_main_thread(): take().expect("Main thread already started").start()
StartMainThread ==
    /\ poolState = "live"
    /\ IF main_thread = "Some"
       THEN /\ main_thread' = TakeMainThread(main_thread)
            /\ mainPc' = "recv"
            /\ main_spawned' = main_spawned + 1
            /\ main_handle' = "held"
            /\ UNCHANGED start_panicked
       ELSE /\ start_panicked' = TRUE
            /\ UNCHANGED <<main_thread, mainPc, main_spawned, main_handle>>
    /\ UNCHANGED <<numIo, ioPc, ioHeld, ioStatus, string_rx_lock, string_chan,
                   string_sender, senders, command_chan, command_tx, store,
                   processed_count, poolState, joinIdx, line_num, send_failed, sent,
                   dequeued, dispatched, parse_errors, main_log, skipped,
                   recv_after_close, parserVars>>

\* faulty variant of ShutdownBegin: string_sender is not dropped before the joins
ShutdownBeginKeepSender ==
    /\ poolState = "live"
    /\ poolState' = "joining"
    /\ joinIdx' = 0
    /\ UNCHANGED <<numIo, ioPc, ioHeld, ioStatus, string_rx_lock, string_chan,
                   string_sender, senders, command_chan, command_tx, main_thread,
                   mainPc, main_spawned, main_handle, store, processed_count, line_num,
                   start_panicked, send_failed, sent, dequeued, dispatched,
                   parse_errors, main_log, skipped, recv_after_close, parserVars>>

\* faulty variant of ShutdownBegin: a main thread never started is dropped, with its
\* command_receiver, before the IO threads are joined
ShutdownBeginDropsMainThread ==
    /\ poolState = "live"
    /\ poolState' = "joining"
    /\ string_sender' = FALSE
    /\ joinIdx' = 0
    /\ main_thread' = IF main_thread = "Some" THEN "Dropped" ELSE main_thread
    /\ UNCHANGED <<numIo, ioPc, ioHeld, ioStatus, string_rx_lock, string_chan, senders,
                   command_chan, command_tx, mainPc, main_spawned,
                   main_handle, store, processed_count, line_num, start_panicked,
                   send_failed, sent, dequeued, dispatched, parse_errors, main_log,
                   skipped, recv_after_close, parserVars>>

\* pool.shutdown(): drop(self.string_sender), collect the handles
ShutdownBegin ==
    /\ poolState = "live"
    /\ poolState' = "joining"
    /\ string_sender' = FALSE
    /\ joinIdx' = 0
    /\ UNCHANGED <<numIo, ioPc, ioHeld, ioStatus, string_rx_lock, string_chan, senders,
                   command_chan, command_tx, main_thread, mainPc, main_spawned,
                   main_handle, store, processed_count, line_num, start_panicked,
                   send_failed, sent, dequeued, dispatched, parse_errors, main_log,
                   skipped, recv_after_close, parserVars>>

\* faulty variant of ShutdownJoin: the join does not wait for the thread to finish
ShutdownJoinNoWait ==
    /\ poolState = "joining"
    /\ joinIdx < numIo
    /\ joinIdx' = joinIdx + 1
    /\ IF joinIdx + 1 = numIo
       THEN /\ poolState' = "returned"
            /\ main_thread' = IF main_thread = "Some" THEN "Dropped" ELSE main_thread
       ELSE UNCHANGED <<poolState, main_thread>>
    /\ UNCHANGED <<numIo, ioPc, ioHeld, ioStatus, string_rx_lock, string_chan,
                   string_sender, senders, command_chan, command_tx, mainPc,
                   main_spawned, main_handle, store, processed_count, line_num,
                   start_panicked, send_failed, sent, dequeued, dispatched,
                   parse_errors, skipped, main_log, recv_after_close, parserVars>>

\* shutdown: handle.join() of the next IO thread returns once that thread has
\* finished; after the last one shutdown returns, and what is left of self (a
\* main_thread never started) is dropped
ShutdownJoin ==
    /\ poolState = "joining"
    /\ joinIdx < numIo
    /\ ioPc[joinIdx] = "exited"
    /\ joinIdx' = joinIdx + 1
    /\ IF joinIdx + 1 = numIo
       THEN /\ poolState' = "returned"
            /\ main_thread' = IF main_thread = "Some" THEN "Dropped" ELSE main_thread
       ELSE UNCHANGED <<poolState, main_thread>>
    /\ UNCHANGED <<numIo, ioPc, ioHeld, ioStatus, string_rx_lock, string_chan,
                   string_sender, senders, command_chan, command_tx, mainPc,
                   main_spawned, main_handle, store, processed_count, line_num,
                   start_panicked, send_failed, sent, dequeued, dispatched,
                   parse_errors, skipped, main_log, recv_after_close, parserVars>>

\* main_handle.join() returns once MainThread::run has returned
JoinMain ==
    /\ main_handle = "held"
    /\ mainPc = "done"
    /\ main_handle' = "joined"
    /\ UNCHANGED <<numIo, ioPc, ioHeld, ioStatus, string_rx_lock, string_chan,
                   string_sender, senders, command_chan, command_tx, main_thread,
                   mainPc, main_spawned, store, processed_count, poolState, joinIdx,
                   line_num, start_panicked, send_failed, sent, dequeued, dispatched,
                   parse_errors, main_log, skipped, recv_after_close, parserVars>>

\* --------------------------------------------------------------- IoThread
\* faulty variant of IoLock: the receiver is taken without waiting for the Mutex
IoLockUnguarded(i) ==
    /\ i \in IoIds
    /\ ioPc[i] = "lock"
    /\ string_rx_lock' = i
    /\ ioPc' = [ioPc EXCEPT ![i] = "recv"]
    /\ UNCHANGED <<numIo, ioHeld, ioStatus, string_chan, string_sender, senders,
                   command_chan, command_tx, main_thread, mainPc, main_spawned,
                   main_handle, store, processed_count, poolState, joinIdx, line_num,
                   start_panicked, send_failed, sent, dequeued, dispatched,
                   parse_errors, main_log, skipped, recv_after_close, parserVars>>

\* IoThread::run, top of the loop: string_receiver.lock().unwrap()
IoLock(i) ==
    /\ i \in IoIds
    /\ ioPc[i] = "lock"
    /\ string_rx_lock = NoOwner
    /\ string_rx_lock' = i
    /\ ioPc' = [ioPc EXCEPT ![i] = "recv"]
    /\ UNCHANGED <<numIo, ioHeld, ioStatus, string_chan, string_sender, senders,
                   command_chan, command_tx, main_thread, mainPc, main_spawned,
                   main_handle, store, processed_count, poolState, joinIdx, line_num,
                   start_panicked, send_failed, sent, dequeued, dispatched,
                   parse_errors, main_log, skipped, recv_after_close, parserVars>>

\* faulty variant of IoRecvOk: the MutexGuard outlives the recv statement
IoRecvOkKeepsLock(i) ==
    /\ i \in IoIds
    /\ ioPc[i] = "recv"
    /\ string_rx_lock = i
    /\ string_chan # <<>>
    /\ LET unit == Head(string_chan) IN
        /\ ioHeld' = [ioHeld EXCEPT ![i] = unit]
        /\ dequeued' = [dequeued EXCEPT ![unit.line_number] = Append(@, i)]
    /\ string_chan' = StringRecvRest(string_chan)
    /\ string_rx_lock' = string_rx_lock
    /\ recv_after_close' = (recv_after_close \/ StringSenders = 0)
    /\ ioPc' = [ioPc EXCEPT ![i] = "process"]
    /\ UNCHANGED <<numIo, ioStatus, string_sender, senders, command_chan, command_tx,
                   main_thread, mainPc, main_spawned, main_handle, store,
                   processed_count, poolState, joinIdx, line_num, start_panicked,
                   send_failed, sent, dispatched, parse_errors, main_log, skipped,
                   parserVars>>

\* .recv() returns Ok((raw_string, line_number)); the guard is released with the statement
IoRecvOk(i) ==
    /\ i \in IoIds
    /\ ioPc[i] = "recv"
    /\ string_rx_lock = i
    /\ string_chan # <<>>
    /\ LET unit == Head(string_chan) IN
        /\ ioHeld' = [ioHeld EXCEPT ![i] = unit]
        /\ dequeued' = [dequeued EXCEPT ![unit.line_number] = Append(@, i)]
    /\ string_chan' = StringRecvRest(string_chan)
    /\ string_rx_lock' = NoOwner
    /\ recv_after_close' = (recv_after_close \/ StringSenders = 0)
    /\ ioPc' = [ioPc EXCEPT ![i] = "process"]
    /\ UNCHANGED <<numIo, ioStatus, string_sender, senders, command_chan, command_tx,
                   main_thread, mainPc, main_spawned, main_handle, store,
                   processed_count, poolState, joinIdx, line_num, start_panicked,
                   send_failed, sent, dispatched, parse_errors, main_log, skipped,
                   parserVars>>

\* .recv() returns Err: "Channel disconnected", break; run returns and drops
\* command_sender and the Arc of the receiver
IoRecvDisconnected(i) ==
    /\ i \in IoIds
    /\ ioPc[i] = "recv"
    /\ string_rx_lock = i
    /\ StringRecvErr
    /\ string_rx_lock' = NoOwner
    /\ ioPc' = [ioPc EXCEPT ![i] = "exited"]
    /\ ioStatus' = [ioStatus EXCEPT ![i] = "Closed"]
    /\ UNCHANGED <<numIo, ioHeld, string_chan, string_sender, senders, command_chan,
                   command_tx, main_thread, mainPc, main_spawned, main_handle, store,
                   processed_count, poolState, joinIdx, line_num, start_panicked,
                   send_failed, sent, dequeued, dispatched, parse_errors, main_log,
                   skipped, recv_after_close, parserVars>>

\* faulty variant of IoProcess: the IO thread applies the command to the store itself
IoProcessWritesStore(i) ==
    /\ i \in IoIds
    /\ ioPc[i] = "process"
    /\ FromStr(ioHeld[i].raw).ok
    /\ CommandRxAlive
    /\ LET unit == ioHeld[i]
           msg == [command |-> FromStr(unit.raw).command,
                   line_number |-> unit.line_number,
                   io_thread_id |-> i]
       IN  /\ command_chan' = CommandSend(command_chan, msg)
           /\ dispatched' = Append(dispatched, msg)
           /\ store' = process_command(store, msg.command).store
    /\ ioPc' = [ioPc EXCEPT ![i] = "lock"]
    /\ ioHeld' = [ioHeld EXCEPT ![i] = NoItem]
    /\ UNCHANGED <<numIo, ioStatus, string_rx_lock, string_chan, string_sender, senders,
                   command_tx, main_thread, mainPc, main_spawned, main_handle,
                   processed_count, poolState, joinIdx, line_num, start_panicked,
                   send_failed, sent, dequeued, parse_errors, main_log, skipped,
                   recv_after_close, parserVars>>

\* faulty variant of IsEmptyLine: the line is compared without trimming
IsEmptyLineUntrimmed(raw_string) == raw_string = <<>>

\* raw_string.trim().is_empty()
IsEmptyLine(raw_string) == Trim(raw_string) = <<>>

\* faulty variant of IoProcess: a parse error ends the IO thread's loop
IoProcessParseErrorBreaks(i) ==
    /\ i \in IoIds
    /\ ioPc[i] = "process"
    /\ LET unit == ioHeld[i]
           parsed == FromStr(unit.raw)
           msg == [command |-> parsed.command,
                   line_number |-> unit.line_number,
                   io_thread_id |-> i]
       IN  IF IsEmptyLine(unit.raw)
           THEN /\ ioPc' = [ioPc EXCEPT ![i] = "lock"]
                /\ skipped' = skipped \cup {unit.line_number}
                /\ UNCHANGED <<ioStatus, command_chan, dispatched, parse_errors>>
           ELSE IF parsed.ok
           THEN IF CommandRxAlive
                THEN /\ command_chan' = CommandSend(command_chan, msg)
                     /\ dispatched' = Append(dispatched, msg)
                     /\ ioPc' = [ioPc EXCEPT ![i] = "lock"]
                     /\ UNCHANGED <<ioStatus, parse_errors, skipped>>
                ELSE /\ ioPc' = [ioPc EXCEPT ![i] = "exited"]
                     /\ ioStatus' = [ioStatus EXCEPT ![i] = "Aborted"]
                     /\ UNCHANGED <<command_chan, dispatched, parse_errors, skipped>>
           ELSE /\ ioPc' = [ioPc EXCEPT ![i] = "exited"]
                /\ parse_errors' = parse_errors \cup
                       {[io_thread_id |-> i, line_number |-> unit.line_number,
                         err |-> parsed.err, raw |-> unit.raw]}
                /\ UNCHANGED <<ioStatus, command_chan, dispatched, skipped>>
    /\ ioHeld' = [ioHeld EXCEPT ![i] = NoItem]
    /\ UNCHANGED <<numIo, string_rx_lock, string_chan, string_sender, senders,
                   command_tx, main_thread, mainPc, main_spawned, main_handle, store,
                   processed_count, poolState, joinIdx, line_num, start_panicked,
                   send_failed, sent, dequeued, main_log, recv_after_close, parserVars>>


\* faulty variant of IoProcess: a failed send to the main thread is ignored
IoProcessSendErrContinues(i) ==
    /\ i \in IoIds
    /\ ioPc[i] = "process"
    /\ LET unit == ioHeld[i]
           parsed == FromStr(unit.raw)
           msg == [command |-> parsed.command,
                   line_number |-> unit.line_number,
                   io_thread_id |-> i]
       IN  IF IsEmptyLine(unit.raw)
           THEN /\ ioPc' = [ioPc EXCEPT ![i] = "lock"]
                /\ skipped' = skipped \cup {unit.line_number}
                /\ UNCHANGED <<ioStatus, command_chan, dispatched, parse_errors>>
           ELSE IF parsed.ok
           THEN IF CommandRxAlive
                THEN /\ command_chan' = CommandSend(command_chan, msg)
                     /\ dispatched' = Append(dispatched, msg)
                     /\ ioPc' = [ioPc EXCEPT ![i] = "lock"]
                     /\ UNCHANGED <<ioStatus, parse_errors, skipped>>
                ELSE /\ ioPc' = [ioPc EXCEPT ![i] = "lock"]
                     /\ UNCHANGED <<ioStatus, command_chan, dispatched, parse_errors, skipped>>
           ELSE /\ ioPc' = [ioPc EXCEPT ![i] = "lock"]
                /\ parse_errors' = parse_errors \cup
                       {[io_thread_id |-> i, line_number |-> unit.line_number,
                         err |-> parsed.err, raw |-> unit.raw]}
                /\ UNCHANGED <<ioStatus, command_chan, dispatched, skipped>>
    /\ ioHeld' = [ioHeld EXCEPT ![i] = NoItem]
    /\ UNCHANGED <<numIo, string_rx_lock, string_chan, string_sender, senders,
                   command_tx, main_thread, mainPc, main_spawned, main_handle, store,
                   processed_count, poolState, joinIdx, line_num, start_panicked,
                   send_failed, sent, dequeued, main_log, recv_after_close, parserVars>>


\* the Ok arm of the match: skip an empty line; else raw_string.parse::<Command>();
\* on Ok command_sender.send(msg), whose Err ("Main thread disconnected") breaks the
\* loop; on Err report the parse error and go round again
IoProcess(i) ==
    /\ i \in IoIds
    /\ ioPc[i] = "process"
    /\ LET unit == ioHeld[i]
           parsed == FromStr(unit.raw)
           msg == [command |-> parsed.command,
                   line_number |-> unit.line_number,
                   io_thread_id |-> i]
       IN  IF IsEmptyLine(unit.raw)
           THEN /\ ioPc' = [ioPc EXCEPT ![i] = "lock"]
                /\ skipped' = skipped \cup {unit.line_number}
                /\ UNCHANGED <<ioStatus, command_chan, dispatched, parse_errors>>
           ELSE IF parsed.ok
           THEN IF CommandRxAlive
                THEN /\ command_chan' = CommandSend(command_chan, msg)
                     /\ dispatched' = Append(dispatched, msg)
                     /\ ioPc' = [ioPc EXCEPT ![i] = "lock"]
                     /\ UNCHANGED <<ioStatus, parse_errors, skipped>>
                ELSE /\ ioPc' = [ioPc EXCEPT ![i] = "exited"]
                     /\ ioStatus' = [ioStatus EXCEPT ![i] = "Aborted"]
                     /\ UNCHANGED <<command_chan, dispatched, parse_errors, skipped>>
           ELSE /\ ioPc' = [ioPc EXCEPT ![i] = "lock"]
                /\ parse_errors' = parse_errors \cup
                       {[io_thread_id |-> i, line_number |-> unit.line_number,
                         err |-> parsed.err, raw |-> unit.raw]}
                /\ UNCHANGED <<ioStatus, command_chan, dispatched, skipped>>
    /\ ioHeld' = [ioHeld EXCEPT ![i] = NoItem]
    /\ UNCHANGED <<numIo, string_rx_lock, string_chan, string_sender, senders,
                   command_tx, main_thread, mainPc, main_spawned, main_handle, store,
                   processed_count, poolState, joinIdx, line_num, start_panicked,
                   send_failed, sent, dequeued, main_log, recv_after_close, parserVars>>

\* ------------------------------------------------------------- MainThread
\* faulty variant of MainRecv: only commands answered Ok are counted
MainRecvCountsOkOnly ==
    /\ mainPc = "recv"
    /\ command_chan # <<>>
    /\ LET msg == Head(command_chan)
           outcome == process_command(store, msg.command)
       IN  /\ processed_count' = processed_count + (IF outcome.result.ok THEN 1 ELSE 0)
           /\ store' = outcome.store
           /\ main_log' = Append(main_log,
                  [line_number |-> msg.line_number, io_thread_id |-> msg.io_thread_id,
                   command |-> msg.command, result |-> outcome.result])
    /\ command_chan' = Tail(command_chan)
    /\ UNCHANGED <<numIo, ioPc, ioHeld, ioStatus, string_rx_lock, string_chan,
                   string_sender, senders, command_tx, main_thread, mainPc,
                   main_spawned, main_handle, poolState, joinIdx, line_num,
                   start_panicked, send_failed, sent, dequeued, dispatched,
                   parse_errors, skipped, recv_after_close, parserVars>>

\* faulty variant of MainRecv: a command answered Err ends the loop
MainRecvStopsOnErr ==
    /\ mainPc = "recv"
    /\ command_chan # <<>>
    /\ LET msg == Head(command_chan)
           outcome == process_command(store, msg.command)
       IN  /\ processed_count' = processed_count + 1
           /\ store' = outcome.store
           /\ mainPc' = IF outcome.result.ok THEN "recv" ELSE "done"
           /\ main_log' = Append(main_log,
                  [line_number |-> msg.line_number, io_thread_id |-> msg.io_thread_id,
                   command |-> msg.command, result |-> outcome.result])
    /\ command_chan' = Tail(command_chan)
    /\ UNCHANGED <<numIo, ioPc, ioHeld, ioStatus, string_rx_lock, string_chan,
                   string_sender, senders, command_tx, main_thread,
                   main_spawned, main_handle, poolState, joinIdx, line_num,
                   start_panicked, send_failed, sent, dequeued, dispatched,
                   parse_errors, skipped, recv_after_close, parserVars>>

\* faulty variant of MainRecv: recv hands out the newest buffered message
MainRecvNewestFirst ==
    /\ mainPc = "recv"
    /\ command_chan # <<>>
    /\ LET msg == command_chan[Len(command_chan)]
           outcome == process_command(store, msg.command)
       IN  /\ processed_count' = processed_count + 1
           /\ store' = outcome.store
           /\ main_log' = Append(main_log,
                  [line_number |-> msg.line_number, io_thread_id |-> msg.io_thread_id,
                   command |-> msg.command, result |-> outcome.result])
    /\ command_chan' = SubSeq(command_chan, 1, Len(command_chan) - 1)
    /\ UNCHANGED <<numIo, ioPc, ioHeld, ioStatus, string_rx_lock, string_chan,
                   string_sender, senders, command_tx, main_thread, mainPc,
                   main_spawned, main_handle, poolState, joinIdx, line_num,
                   start_panicked, send_failed, sent, dequeued, dispatched,
                   parse_errors, skipped, recv_after_close, parserVars>>

\* MainThread::run, one turn of the while-let: recv Ok(msg), count it, process it, print
MainRecv ==
    /\ mainPc = "recv"
    /\ command_chan # <<>>
    /\ LET msg == Head(command_chan)
           outcome == process_command(store, msg.command)
       IN  /\ processed_count' = processed_count + 1
           /\ store' = outcome.store
           /\ main_log' = Append(main_log,
                  [line_number |-> msg.line_number, io_thread_id |-> msg.io_thread_id,
                   command |-> msg.command, result |-> outcome.result])
    /\ command_chan' = Tail(command_chan)
    /\ UNCHANGED <<numIo, ioPc, ioHeld, ioStatus, string_rx_lock, string_chan,
                   string_sender, senders, command_tx, main_thread, mainPc,
                   main_spawned, main_handle, poolState, joinIdx, line_num,
                   start_panicked, send_failed, sent, dequeued, dispatched,
                   parse_errors, skipped, recv_after_close, parserVars>>

\* recv returns Err: the loop ends, "Processed {} commands", the thread finishes
MainExit ==
    /\ mainPc = "recv"
    /\ CommandRecvErr
    /\ mainPc' = "done"
    /\ UNCHANGED <<numIo, ioPc, ioHeld, ioStatus, string_rx_lock, string_chan,
                   string_sender, senders, command_chan, command_tx, main_thread,
                   main_spawned, main_handle, store, processed_count, poolState,
                   joinIdx, line_num, start_panicked, send_failed, sent, dequeued,
                   dispatched, parse_errors, main_log, skipped, recv_after_close, parserVars>>

\* ---------------------------------------------------------- specification
IoStep(i) == IoLock(i) \/ IoRecvOk(i) \/ IoRecvDisconnected(i) \/ IoProcess(i)

MainStep == MainRecv \/ MainExit

Next ==
    \/ GetStringSender
    \/ \E raw \in Lines : Submit(raw)
    \/ DropSender
    \/ StartMainThread
    \/ ShutdownBegin
    \/ ShutdownJoin
    \/ JoinMain
    \/ \E i \in 0 .. (MaxIoThreads - 1) : IoStep(i)
    \/ MainStep

Spec == Init /\ [][Next]_vars

\* OS threads that can run do run; what the caller does next is its own choice
FairSpec ==
    /\ Spec
    /\ \A i \in 0 .. (MaxIoThreads - 1) : WF_vars(IoStep(i))
    /\ WF_vars(MainStep)
    /\ WF_vars(ShutdownJoin)

\* ------------------------------------------------------------ properties
AllIoExited == \A i \in IoIds : ioPc[i] = "exited"

LineNumbers == 1 .. Len(sent)

\* line numbers whose send succeeded
Accepted == LineNumbers \ send_failed

InStringChan(n) == \E k \in DOMAIN string_chan : string_chan[k].line_number = n

\* the accepted lines that parse, in submission order
OkLines == SelectSeq([n \in LineNumbers |-> n],
                     LAMBDA n : n \notin send_failed /\ FromStr(sent[n]).ok)

MessageOf(entry) ==
    [command |-> entry.command, line_number |-> entry.line_number,
     io_thread_id |-> entry.io_thread_id]

MainTerminated == mainPc = "done" \/ main_thread = "Dropped"

ShutdownInvoked == poolState # "live"

\* C1: every accepted WorkUnit is received by exactly one IO thread: never by two,
\* and a unit nobody has received yet is still buffered in the string channel, so
\* that when all IO threads have finished every unit has been received once.
C1_ExactlyOneDequeue ==
    /\ send_failed = {}
    /\ \A n \in Accepted :
        /\ Len(dequeued[n]) <= 1
        /\ (Len(dequeued[n]) = 0) <=> InStringChan(n)
    /\ AllIoExited => \A n \in Accepted : Len(dequeued[n]) = 1

C1_Witness ==
    /\ numIo >= 2
    /\ AllIoExited
    /\ Len(sent) >= 2
    /\ dequeued[1] # dequeued[2]
    /\ Len(dequeued[1]) = 1 /\ Len(dequeued[2]) = 1

\* C2: every CommandMessage sent to the command channel is processed at most once,
\* nothing is processed that was not sent, and once the main thread has finished
\* every message sent has been processed exactly once.
C2_AppliedExactlyOnce ==
    /\ \A a, b \in DOMAIN main_log :
           a # b => main_log[a].line_number # main_log[b].line_number
    /\ \A a \in DOMAIN main_log :
           \E d \in DOMAIN dispatched : dispatched[d] = MessageOf(main_log[a])
    /\ mainPc = "unspawned" => main_log = <<>> /\ store = EmptyStore
    /\ mainPc = "done" =>
           /\ command_chan = <<>>
           /\ \A d \in DOMAIN dispatched :
                  Cardinality({a \in DOMAIN main_log :
                                   MessageOf(main_log[a]) = dispatched[d]}) = 1

C2_Witness == mainPc = "done" /\ Len(dispatched) >= 2 /\ Len(main_log) >= 2

\* C3: when the main thread has finished, processed_count is the number of accepted
\* lines that parse; a command answered KeyNotFound counts, a parse failure does not.
C3_ProcessedCount ==
    mainPc = "done" => processed_count = Len(OkLines)

C3_Witness ==
    /\ mainPc = "done"
    /\ parse_errors # {}
    /\ \E a \in DOMAIN main_log : ~main_log[a].result.ok
    /\ processed_count = 1

ThreadsNext == (\E i \in 0 .. (MaxIoThreads - 1) : IoStep(i)) \/ MainStep \/ ShutdownJoin

ShutdownComplete == poolState = "returned" /\ AllIoExited /\ MainTerminated

\* C4 (under FairSpec): once shutdown has been invoked and no clone of the sender
\* is left, every IO thread finishes and is joined, shutdown returns and the main
\* thread finishes (or was never started and is dropped with the pool); until then
\* some thread can always take a step.
C4_ShutdownTerminates ==
    /\ [](ShutdownInvoked /\ senders = 0 /\ ~ShutdownComplete => ENABLED ThreadsNext)
    /\ (ShutdownInvoked /\ senders = 0) ~> ShutdownComplete

C4_Witness ==
    /\ poolState = "returned"
    /\ mainPc = "done"
    /\ joinIdx = numIo
    /\ numIo >= 2
    /\ Len(sent) >= 1

\* C5 as stated: when shutdown has returned, every message sent to the (started)
\* main thread has already been processed and processed_count is final.
C5_AsClaimed ==
    poolState = "returned" /\ main_spawned = 1 =>
        /\ command_chan = <<>>
        /\ processed_count = Len(dispatched)

\* C5 amended: when shutdown has returned every IO thread has finished and been
\* joined and both the string channel and the command channel have no sender left,
\* so the messages sent are fixed; the main thread is not joined by shutdown. Once
\* the caller has joined the handle of start_main_thread the main thread has
\* finished, every message sent has been processed and processed_count is final.
C5_ShutdownJoinsIoThreadsOnly ==
    /\ poolState = "returned" =>
           /\ AllIoExited
           /\ joinIdx = numIo
           /\ string_chan = <<>>
           /\ CommandSenders = 0
           /\ Len(main_log) + Len(command_chan) = Len(dispatched)
    /\ main_handle = "joined" =>
           /\ mainPc = "done"
           /\ command_chan = <<>>
           /\ processed_count = Len(dispatched)
           /\ Len(main_log) = Len(dispatched)

C5_Witness ==
    /\ poolState = "returned"
    /\ mainPc = "recv"
    /\ command_chan # <<>>
    /\ processed_count < Len(dispatched)

\* C6: with one IO thread the commands processed by the main thread are, in order,
\* the accepted lines that parse, in submission order: always a prefix of them, and
\* all of them once the main thread has finished.
C6_SingleWorkerFifo ==
    numIo = 1 =>
        /\ Len(main_log) <= Len(OkLines)
        /\ \A a \in DOMAIN main_log :
               /\ main_log[a].line_number = OkLines[a]
               /\ main_log[a].command = FromStr(sent[OkLines[a]]).command
        /\ mainPc = "done" => Len(main_log) = Len(OkLines)

C6_Witness ==
    /\ numIo = 1
    /\ mainPc = "done"
    /\ Len(main_log) >= 2
    /\ main_log[1].command # main_log[2].command

\* C7: dropping the last sender of the string channel discards nothing: a line
\* buffered then is still received by an IO thread, and an IO thread ends with
\* "Channel disconnected" only when no sender is left and nothing is buffered.
C7_CloseKeepsQueuedWork ==
    /\ \A i \in IoIds :
           ioStatus[i] = "Closed" => StringSenders = 0 /\ string_chan = <<>>
    /\ StringSenders = 0 =>
           \A n \in Accepted : InStringChan(n) \/ Len(dequeued[n]) >= 1
    /\ StringSenders = 0 /\ AllIoExited =>
           \A n \in Accepted : ~InStringChan(n) /\ Len(dequeued[n]) >= 1

C7_Witness ==
    /\ recv_after_close
    /\ \A i \in IoIds : ioStatus[i] = "Closed"
    /\ \A n \in LineNumbers : Len(dequeued[n]) = 1
    /\ Len(sent) >= 2

\* C8 (under FairSpec): the command channel has no sender left exactly when every
\* IO thread has finished (the pool keeps none); the main thread never finishes
\* before that, nor with a message still buffered; and once every IO thread has
\* finished a running main thread processes what is buffered and then finishes.
C8_DispatchChannelCloses ==
    /\ []((CommandSenders = 0) <=> AllIoExited)
    /\ [](mainPc = "done" => AllIoExited /\ command_chan = <<>>)
    /\ [](mainPc = "recv" /\ AllIoExited /\ command_chan = <<>> => ENABLED MainExit)
    /\ (AllIoExited /\ mainPc = "recv") ~>
           (mainPc = "done" /\ Len(main_log) = Len(dispatched))

C8_Witness ==
    /\ mainPc = "done"
    /\ numIo >= 2
    /\ \E a, b \in DOMAIN main_log : main_log[a].io_thread_id # main_log[b].io_thread_id

otherThanStore ==
    <<numIo, ioPc, ioHeld, ioStatus, string_rx_lock, string_chan, string_sender,
      senders, command_tx, main_thread, mainPc, main_spawned, main_handle, poolState,
      joinIdx, line_num, start_panicked, send_failed, sent, dequeued, dispatched,
      parse_errors, skipped, recv_after_close, parserVars>>

\* C9: the store changes only in the main thread's processing of the message at the
\* head of the command channel; every step of an IO thread and of the caller leaves
\* it as it is.
C9_SingleWriter ==
    [][store' # store =>
          /\ mainPc = "recv"
          /\ command_chan # <<>>
          /\ command_chan' = Tail(command_chan)
          /\ store' = process_command(store, Head(command_chan).command).store
          /\ processed_count' = processed_count + 1
          /\ UNCHANGED otherThanStore]_vars

C9_Witness ==
    /\ store # EmptyStore
    /\ numIo >= 2
    /\ \E i \in IoIds : ioPc[i] = "process"
    /\ senders > 0

otherThanStartPanicked ==
    <<numIo, ioPc, ioHeld, ioStatus, string_rx_lock, string_chan, string_sender,
      senders, command_chan, command_tx, main_thread, mainPc, main_spawned,
      main_handle, store, processed_count, poolState, joinIdx, line_num,
      send_failed, sent, dequeued, dispatched, parse_errors, skipped,
      recv_after_close, main_log, parserVars>>

\* C10: a new pool holds num_io_threads IO threads and a main thread not yet
\* started; the first start_main_thread takes it and spawns the one main thread; a
\* later call panics ("Main thread already started") and changes nothing else, so
\* no second main thread is ever spawned.
C10_StartAtMostOnce ==
    /\ DOMAIN ioPc = 0 .. (numIo - 1) /\ main_thread = "Some" /\ main_spawned = 0
    /\ [](main_spawned <= 1)
    /\ [](main_thread = "Some" => main_spawned = 0 /\ mainPc = "unspawned")
    /\ [](start_panicked => main_spawned = 1)
    /\ [][main_spawned' # main_spawned =>
              /\ main_thread = "Some" /\ main_thread' = "None"
              /\ mainPc = "unspawned" /\ mainPc' = "recv"
              /\ main_spawned' = 1]_vars
    /\ [][start_panicked' # start_panicked =>
              /\ main_thread = "None"
              /\ UNCHANGED otherThanStartPanicked]_vars

C10_Witness == start_panicked /\ main_spawned = 1 /\ mainPc = "recv"

ParseErrorOf(i) ==
    [io_thread_id |-> i, line_number |-> ioHeld[i].line_number,
     err |-> FromStr(ioHeld[i].raw).err, raw |-> ioHeld[i].raw]

\* IO thread i holds a line that is not empty and does not parse
HoldsUnparsable(i) ==
    /\ ioPc[i] = "process"
    /\ ~IsEmptyLine(ioHeld[i].raw)
    /\ ~FromStr(ioHeld[i].raw).ok

\* C12: a line that fails to parse is reported by the IO thread that holds it and
\* by nothing else: no message is sent, the thread goes back to fetching, nothing
\* is counted or applied for it, no IO thread ever ends because of it (they end
\* only on a disconnected channel), and once the main thread has finished every
\* accepted line that parses has been applied, whatever failed before it.
C12_ParseFailureIsolated ==
    /\ [][\A i \in IoIds : HoldsUnparsable(i) /\ ioPc'[i] # ioPc[i] =>
              /\ ioPc'[i] = "lock" /\ ioStatus' = ioStatus
              /\ parse_errors' = parse_errors \cup {ParseErrorOf(i)}
              /\ command_chan' = command_chan /\ dispatched' = dispatched
              /\ processed_count' = processed_count /\ store' = store
              /\ \A j \in IoIds \ {i} : ioPc'[j] = ioPc[j]]_vars
    /\ [][parse_errors' # parse_errors => \E i \in IoIds : HoldsUnparsable(i)]_vars
    /\ [](\A e \in parse_errors :
              /\ ~FromStr(sent[e.line_number]).ok
              /\ \A k \in DOMAIN dispatched : dispatched[k].line_number # e.line_number)
    /\ [](\A i \in IoIds : ioPc[i] = "exited" => ioStatus[i] = "Closed")
    /\ [](processed_count <= Len(OkLines))
    /\ [](mainPc = "done" =>
              \A n \in Accepted : FromStr(sent[n]).ok =>
                  \E k \in DOMAIN main_log : main_log[k].line_number = n)

\* one IO thread reported line 1 and then dispatched line 2, which has been applied
C12_Witness ==
    /\ numIo = 1
    /\ sent = <<LineInvalid, LineSet>>
    /\ \E e \in parse_errors : e.line_number = 1 /\ e.err = "Invalid command"
    /\ Len(main_log) = 1 /\ main_log[1].line_number = 2
    /\ processed_count = 1
    /\ store = [k \in {"k1"} |-> <<"v1">>]

\* C13: an IO thread that holds a line which is empty after trimming drops it
\* without calling the parser: nothing is reported (the parser's "Empty line"
\* error never appears), nothing is sent, counted or applied, and the thread goes
\* back to fetching; only blank lines are ever dropped this way.
C13_BlankLineSkipped ==
    /\ [][\A i \in IoIds :
              ioPc[i] = "process" /\ Trim(ioHeld[i].raw) = <<>> /\ ioPc'[i] # ioPc[i] =>
                  /\ ioPc'[i] = "lock" /\ ioStatus' = ioStatus
                  /\ skipped' = skipped \cup {ioHeld[i].line_number}
                  /\ parse_errors' = parse_errors
                  /\ command_chan' = command_chan /\ dispatched' = dispatched
                  /\ processed_count' = processed_count /\ store' = store]_vars
    /\ [](\A e \in parse_errors : e.err # "Empty line" /\ e.line_number \notin skipped)
    /\ [](\A n \in skipped :
              /\ Trim(sent[n]) = <<>>
              /\ \A k \in DOMAIN dispatched : dispatched[k].line_number # n)

\* one IO thread dropped the whitespace-only line 1 and went on to dispatch line 2
C13_Witness ==
    /\ numIo = 1
    /\ sent = <<LineBlank, LineSet>>
    /\ skipped = {1} /\ parse_errors = {}
    /\ Len(dispatched) = 1 /\ dispatched[1].line_number = 2
    /\ Len(main_log) = 1 /\ processed_count = 1

\* ------------------------------------------------- round trip on one key
Keys == {"k1", "k2"}

\* values as the words of the line; "John Doe" is two words
Values == {<<"v1">>, <<"John", "Doe">>}

SetLine(k, v) == <<"SET", " ", k, " ">> \o Join(v)
GetLine(k) == <<"GET", " ", k>>
DeleteLine(k) == <<"DELETE", " ", k>>

\* SET k v, GET k, DELETE k, GET k
RoundTripScript(k, v) == <<SetLine(k, v), GetLine(k), DeleteLine(k), GetLine(k)>>

\* the caller sends the lines of one round trip, in order
SubmitRoundTrip ==
    \E k \in Keys, v \in Values :
        LET script == RoundTripScript(k, v) IN
            /\ line_num < Len(script)
            /\ line_num > 0 => sent[1] = script[1]
            /\ SubmitLine(script[line_num + 1])

InitOneIoThread == Init /\ numIo = 1

NextRoundTrip ==
    \/ GetStringSender
    \/ SubmitRoundTrip
    \/ DropSender
    \/ StartMainThread
    \/ ShutdownBegin
    \/ ShutdownJoin
    \/ JoinMain
    \/ \E i \in 0 .. (MaxIoThreads - 1) : IoStep(i)
    \/ MainStep

SpecRoundTrip == InitOneIoThread /\ [][NextRoundTrip]_vars

\* the outcome the n-th command of a round trip on key k with value v must have
RoundTripResult(n, k, v) ==
    IF n = 1 THEN [ok |-> TRUE, op |-> "SET", key |-> k, value |-> v]
    ELSE IF n = 2 THEN [ok |-> TRUE, op |-> "GET", key |-> k, value |-> v]
    ELSE IF n = 3 THEN [ok |-> TRUE, op |-> "DELETED", key |-> k, value |-> v]
    ELSE [ok |-> FALSE, err |-> "KeyNotFound", key |-> k]

\* C14: with one IO thread, SET k v, GET k, DELETE k, GET k sent in this order are
\* answered in this order with: set ok, get ok with v, delete ok reporting the
\* removed v, and key not found; the key is in the store exactly between the SET
\* and the DELETE, and after the drain all four are answered and the store is empty.
C14_RoundTrip ==
    /\ \A n \in DOMAIN main_log :
           LET c == FromStr(sent[1]).command IN
               /\ main_log[n].line_number = n
               /\ main_log[n].result = RoundTripResult(n, c.key, c.value)
    /\ store = IF Len(main_log) \in {1, 2}
               THEN [k \in {FromStr(sent[1]).command.key} |-> FromStr(sent[1]).command.value]
               ELSE EmptyStore
    /\ mainPc = "done" => Len(main_log) = Len(sent) /\ processed_count = Len(sent)

C14_Witness ==
    /\ mainPc = "done"
    /\ sent = RoundTripScript("k2", <<"John", "Doe">>)
    /\ Len(main_log) = 4
    /\ main_log[3].result = [ok |-> TRUE, op |-> "DELETED", key |-> "k2",
                              value |-> <<"John", " ", "Doe">>]
    /\ main_log[4].result = [ok |-> FALSE, err |-> "KeyNotFound", key |-> "k2"]

\* ------------------------------------------------- SETs on distinct keys
DistinctKeys == {"a", "b", "c"}

\* the words of the value set on each key; two keys get equal values
DistinctValue(k) == IF k = "b" THEN <<"John", "Doe">> ELSE <<"1">>

\* keys of the lines sent so far
SentKeys == {FromStr(sent[n]).command.key : n \in LineNumbers}

\* the caller sends a SET on a key it has not used yet
SubmitDistinctSet ==
    \E k \in DistinctKeys \ SentKeys :
        /\ line_num < MaxSubmit
        /\ SubmitLine(SetLine(k, DistinctValue(k)))

NextDistinctSets ==
    \/ GetStringSender
    \/ SubmitDistinctSet
    \/ DropSender
    \/ StartMainThread
    \/ ShutdownBegin
    \/ ShutdownJoin
    \/ JoinMain
    \/ \E i \in 0 .. (MaxIoThreads - 1) : IoStep(i)
    \/ MainStep

SpecDistinctSets == Init /\ [][NextDistinctSets]_vars

\* the map holding exactly the pairs of the given SET lines
PairsOf(ns) ==
    [k \in {FromStr(sent[n]).command.key : n \in ns} |->
        LET n == CHOOSE m \in ns : FromStr(sent[m]).command.key = k
        IN  FromStr(sent[n]).command.value]

\* C15: when every line is a SET and the keys are pairwise distinct, the store
\* always holds exactly the pairs applied so far, and once the main thread has
\* finished it holds exactly the submitted pairs, for any number of IO threads
\* and whatever order the IO threads dispatched them in.
C15_DistinctSetsFinalStore ==
    /\ store = PairsOf({main_log[k].line_number : k \in DOMAIN main_log})
    /\ mainPc = "done" => store = PairsOf(LineNumbers)

\* two IO threads, two SETs applied in the reverse of their submission order
C15_Witness ==
    /\ mainPc = "done"
    /\ numIo = 2
    /\ Len(sent) = 2
    /\ Len(main_log) = 2 /\ main_log[1].line_number = 2
    /\ store = PairsOf({1, 2}) /\ Cardinality(DOMAIN store) = 2

\* the a-th applied message was submitted after the b-th applied one, a < b
AppliedOutOfOrder(a, b) ==
    /\ a \in DOMAIN main_log /\ b \in DOMAIN main_log
    /\ a < b
    /\ main_log[a].line_number > main_log[b].line_number

\* C16: the main thread can apply a later line before an earlier one, and it does
\* so only when there are at least two IO threads and the two lines went through
\* different ones; a GET of a key whose SET was sent before it is then answered
\* key-not-found because the SET has not been applied yet.
C16_ReorderAcrossIoThreads ==
    /\ \A a, b \in DOMAIN main_log :
           AppliedOutOfOrder(a, b) =>
               /\ numIo >= 2
               /\ main_log[a].io_thread_id # main_log[b].io_thread_id
    /\ \A a \in DOMAIN main_log :
           LET e == main_log[a] IN
               (/\ e.command.type = "Get" /\ ~e.result.ok
                /\ \E n \in 1 .. (e.line_number - 1) :
                       /\ FromStr(sent[n]).ok
                       /\ FromStr(sent[n]).command.type = "Set"
                       /\ FromStr(sent[n]).command.key = e.command.key)
               => /\ numIo >= 2
                  /\ \A b \in 1 .. (a - 1) :
                         main_log[b].command.type = "Set" =>
                             main_log[b].command.key # e.command.key

\* SET k1 v1 is line 1 and GET k1 line 2; the GET was applied first and failed
C16_Witness ==
    /\ numIo >= 2
    /\ sent = <<LineSet, LineGet>>
    /\ Len(main_log) = 2
    /\ main_log[1].line_number = 2 /\ main_log[1].result = [ok |-> FALSE, err |-> "KeyNotFound", key |-> "k1"]
    /\ main_log[2].line_number = 1 /\ main_log[2].result.ok
    /\ AppliedOutOfOrder(1, 2)

\* --------------------------------------- a pool dropped without shutdown
\* the ThreadPool value goes out of scope: its string_sender is dropped, a main
\* thread that was never started is dropped with its command_receiver, and the
\* JoinHandles of the IO threads are dropped, which detaches the threads
DropPool ==
    /\ poolState = "live"
    /\ poolState' = "dropped"
    /\ string_sender' = FALSE
    /\ main_thread' = IF main_thread = "Some" THEN "Dropped" ELSE main_thread
    /\ UNCHANGED <<numIo, ioPc, ioHeld, ioStatus, string_rx_lock, string_chan, senders,
                   command_chan, command_tx, mainPc, main_spawned, main_handle, store,
                   processed_count, joinIdx, line_num, start_panicked, send_failed,
                   sent, dequeued, dispatched, parse_errors, skipped, recv_after_close,
                   main_log, parserVars>>

\* lines that parse
ParsableLines == {LineSet, LineGet}

NextAbandon ==
    \/ GetStringSender
    \/ \E raw \in ParsableLines : Submit(raw)
    \/ DropSender
    \/ StartMainThread
    \/ DropPool
    \/ JoinMain
    \/ \E i \in 0 .. (MaxIoThreads - 1) : IoStep(i)
    \/ MainStep

SpecAbandon == Init /\ [][NextAbandon]_vars

\* IO thread i holds a parsed command it cannot send: the command receiver is gone
SendWillFail(i) ==
    /\ ioPc[i] = "process"
    /\ ~IsEmptyLine(ioHeld[i].raw)
    /\ FromStr(ioHeld[i].raw).ok
    /\ ~CommandRxAlive

\* C17: an IO thread whose send finds the command receiver gone ends at once as
\* Aborted, and that is the only way to become Aborted; the step changes nothing
\* but this thread: the other IO threads, the lock, both channels, the main
\* thread and the store stay as they were, and the other IO threads can go on
\* taking the lock and receiving.
C17_SendFailureAbortsOnlySender ==
    /\ [][\A i \in IoIds : SendWillFail(i) /\ ioPc'[i] # ioPc[i] =>
              /\ ioPc'[i] = "exited" /\ ioStatus'[i] = "Aborted"
              /\ \A j \in IoIds \ {i} :
                     /\ ioPc'[j] = ioPc[j] /\ ioStatus'[j] = ioStatus[j]
                     /\ ioHeld'[j] = ioHeld[j]
              /\ string_rx_lock' = string_rx_lock /\ string_chan' = string_chan
              /\ command_chan' = command_chan /\ dispatched' = dispatched
              /\ mainPc' = mainPc /\ store' = store
              /\ processed_count' = processed_count]_vars
    /\ [][\A i \in IoIds : ioStatus'[i] = "Aborted" /\ ioStatus[i] # "Aborted" =>
              SendWillFail(i)]_vars
    /\ [](\A i \in IoIds : ioStatus[i] = "Aborted" =>
              /\ ioPc[i] = "exited" /\ string_rx_lock # i
              /\ \A j \in IoIds \ {i} :
                     /\ ioPc[j] = "lock" /\ string_rx_lock = NoOwner => ENABLED IoLock(j)
                     /\ ioPc[j] = "recv" /\ string_chan # <<>> => ENABLED IoRecvOk(j))

\* one IO thread is Aborted while another holds the lock with a line to receive
C17_Witness ==
    \E i, j \in IoIds :
        /\ i # j
        /\ ioStatus[i] = "Aborted" /\ ioPc[i] = "exited"
        /\ ioStatus[j] = "running" /\ ioPc[j] = "recv" /\ string_rx_lock = j
        /\ string_chan # <<>>
        /\ main_thread = "Dropped"

\* ------------------------------------------- commands on a single key
\* a SET, an overwriting SET, a GET and a DELETE, all on key k1
CommandLines == {LineSet, SetLine("k1", <<"John", "Doe">>), LineGet, DeleteLine("k1")}

NextCommands ==
    \/ GetStringSender
    \/ \E raw \in CommandLines : Submit(raw)
    \/ DropSender
    \/ StartMainThread
    \/ ShutdownBegin
    \/ ShutdownJoin
    \/ JoinMain
    \/ \E i \in 0 .. (MaxIoThreads - 1) : IoStep(i)
    \/ MainStep

SpecCommands == InitOneIoThread /\ [][NextCommands]_vars

\* the last line the main thread printed
LastResult == main_log[Len(main_log)].result

\* C18: whatever a command is answered, the main thread takes it off the channel,
\* counts it and stays in its receive loop, which only a disconnected channel
\* ends. A GET leaves the store as it is; a DELETE of an absent key is answered
\* key-not-found and leaves the store as it is; a SET is always answered Ok and
\* afterwards its key maps to its value while every other key is as before.
C18_FailuresDoNotStopMainThread ==
    /\ [][processed_count' # processed_count =>
              LET c == Head(command_chan).command IN
                  /\ mainPc' = "recv"
                  /\ command_chan' = Tail(command_chan)
                  /\ c.type = "Get" =>
                         /\ store' = store
                         /\ LastResult'.ok <=> c.key \in DOMAIN store
                  /\ c.type = "Delete" /\ c.key \notin DOMAIN store =>
                         /\ store' = store
                         /\ LastResult' = [ok |-> FALSE, err |-> "KeyNotFound", key |-> c.key]
                  /\ c.type = "Set" =>
                         /\ LastResult'.ok
                         /\ DOMAIN store' = DOMAIN store \cup {c.key}
                         /\ store'[c.key] = c.value
                         /\ \A k \in DOMAIN store \ {c.key} : store'[k] = store[k]]_vars
    /\ [][mainPc = "recv" /\ mainPc' = "done" => CommandRecvErr]_vars
    /\ [](mainPc = "recv" /\ command_chan # <<>> => ENABLED MainRecv)

\* a DELETE of the absent key failed and the SET sent after it was applied
C18_Witness ==
    /\ sent = <<DeleteLine("k1"), LineSet>>
    /\ Len(main_log) = 2 /\ processed_count = 2
    /\ main_log[1].result = [ok |-> FALSE, err |-> "KeyNotFound", key |-> "k1"]
    /\ main_log[2].result.ok
    /\ store = [k \in {"k1"} |-> <<"v1">>]

\* IO threads inside the locked recv
Receiving == {i \in IoIds : ioPc[i] = "recv"}

\* C19: receiving from the string channel is mutually exclusive: the Mutex has at
\* most one holder, the holder is the one IO thread inside recv, and while it is
\* held every other IO thread that wants to fetch stays waiting for the lock.
C19_DequeueMutuallyExclusive ==
    /\ string_rx_lock \in IoIds \cup {NoOwner}
    /\ Cardinality(Receiving) <= 1
    /\ \A i \in IoIds : i \in Receiving <=> string_rx_lock = i
    /\ \A j \in IoIds :
           ioPc[j] = "lock" /\ string_rx_lock # NoOwner =>
               ~ENABLED IoLock(j) /\ ~ENABLED IoRecvOk(j)

\* one IO thread blocks inside recv on the empty channel while another waits for the lock
C19_Witness ==
    \E i, j \in IoIds :
        /\ i # j
        /\ ioPc[i] = "recv" /\ string_rx_lock = i
        /\ ioPc[j] = "lock"
        /\ string_chan = <<>> /\ StringSenders > 0

\* C20: an IO thread holds the Mutex only inside recv, never while it parses or
\* sends; so while one IO thread is busy with its line, an idle one can take the
\* lock and receive the next line, and two IO threads can be busy with two
\* different lines at the same time.
C20_LockOnlyWhileReceiving ==
    /\ \A i \in IoIds : ioPc[i] # "recv" => string_rx_lock # i
    /\ \A i, j \in IoIds :
           i # j /\ ioPc[i] = "process" =>
               /\ ioPc[j] = "lock" /\ Receiving = {} => ENABLED IoLock(j)
               /\ ioPc[j] = "recv" /\ string_chan # <<>> => ENABLED IoRecvOk(j)

\* two IO threads are parsing or sending different lines at the same time
C20_Witness ==
    \E i, j \in IoIds :
        /\ i # j
        /\ ioPc[i] = "process" /\ ioPc[j] = "process"
        /\ ioHeld[i].line_number # ioHeld[j].line_number
        /\ string_rx_lock = NoOwner

\* ------------------------------------------------------ parser harness
Words == {"SET", "GET", "DELETE", "set", "k1", "v1"}

\* lines of up to MaxTokens words
TokenSeqs == UNION {[1 .. n -> Words] : n \in 0 .. MaxTokens}

\* whitespace between two words, and around the line
Separators == {<<" ">>, <<"\t", " ">>}
Leading == {<<>>, <<" ">>}
Trailing == {<<>>, <<"\t">>}

RECURSIVE Interleave(_, _)
Interleave(tokens, sep) ==
    IF Len(tokens) <= 1 THEN tokens
    ELSE <<Head(tokens)>> \o sep \o Interleave(Tail(tokens), sep)

\* the text of a line with the given words and whitespace
MakeLine(tokens, lead, sep, trail) == lead \o Interleave(tokens, sep) \o trail

InitParser ==
    /\ PoolInit /\ numIo = 1
    /\ \E tokens \in TokenSeqs, lead \in Leading, sep \in Separators, trail \in Trailing :
           /\ parse_tokens = tokens
           /\ parse_line = MakeLine(tokens, lead, sep, trail)
    /\ parse_result = NotParsed

\* line.parse::<Command>()
ParseLine ==
    /\ parse_result = NotParsed
    /\ parse_result' = FromStr(parse_line)
    /\ UNCHANGED <<poolVars, parse_tokens, parse_line>>

NextParser == ParseLine

SpecParser == InitParser /\ [][NextParser]_vars

\* the words joined by single spaces
SingleSpaced(ws) == [i \in 1 .. (2 * Len(ws) - 1) |-> IF i % 2 = 1 THEN ws[(i + 1) \div 2] ELSE " "]

IsSetShape(t) == Len(t) >= 3 /\ t[1] = "SET"
IsGetShape(t) == Len(t) = 2 /\ t[1] = "GET"
IsDeleteShape(t) == Len(t) = 2 /\ t[1] = "DELETE"

\* C21: from_str sees a line as its whitespace-separated words and accepts exactly
\* three shapes, with the verb in upper case: SET key and one or more value words,
\* giving the value words joined by single spaces; GET key; DELETE key. Every
\* other line is an error: "Empty line" when there is no word, else "Invalid
\* command" (unknown or lower-case verb, missing key or value, extra word after
\* the key of GET or DELETE).
C21_ParserShapes ==
    parse_result # NotParsed =>
        LET t == parse_tokens IN
            /\ SplitWhitespace(Trim(parse_line)) = t
            /\ parse_result.ok <=> IsSetShape(t) \/ IsGetShape(t) \/ IsDeleteShape(t)
            /\ IsSetShape(t) =>
                   parse_result.command =
                       [type |-> "Set", key |-> t[2],
                        value |-> SingleSpaced(SubSeq(t, 3, Len(t)))]
            /\ IsGetShape(t) => parse_result.command = [type |-> "Get", key |-> t[2]]
            /\ IsDeleteShape(t) => parse_result.command = [type |-> "Delete", key |-> t[2]]
            /\ ~parse_result.ok =>
                   parse_result.err = IF t = <<>> THEN "Empty line" ELSE "Invalid command"

\* a SET whose two value words are separated by a tab and a space
C21_Witness ==
    /\ parse_line = <<" ", "SET", "\t", " ", "k1", "\t", " ", "v1", "\t", " ", "v1">>
    /\ parse_result.ok
    /\ parse_result.command = [type |-> "Set", key |-> "k1", value |-> <<"v1", " ", "v1">>]

\* C22: shutdown drops the pool's own string_sender and nothing else. While a
\* clone from get_string_sender is alive the string channel stays connected, so
\* no IO thread has ended, and a shutdown that has been invoked is still waiting
\* in the join of the first IO thread; shutdown has returned only when every
\* clone has been dropped.
C22_CloneKeepsShutdownWaiting ==
    /\ [][poolState = "live" /\ poolState' = "joining" =>
              /\ ~string_sender' /\ senders' = senders
              /\ string_chan' = string_chan /\ ioPc' = ioPc]_vars
    /\ [](senders > 0 => \A i \in IoIds : ioPc[i] # "exited" /\ ioStatus[i] = "running")
    /\ [](senders > 0 /\ ShutdownInvoked =>
              /\ poolState = "joining" /\ joinIdx = 0
              /\ ~ENABLED ShutdownJoin
              /\ \A i \in IoIds : ~ENABLED IoRecvDisconnected(i))
    /\ [](poolState = "returned" => senders = 0)

\* shutdown waits in its first join: a clone is alive, the channel is empty, one
\* IO thread blocks in recv and every line sent has been handled
C22_Witness ==
    /\ poolState = "joining" /\ joinIdx = 0 /\ senders > 0
    /\ string_chan = <<>> /\ line_num > 0
    /\ \E i \in IoIds : ioPc[i] = "recv"
    /\ \A i \in IoIds : ioPc[i] \in {"recv", "lock"}
    /\ ~ENABLED ThreadsNext

\* ------------------------------ a pool that is shut down or just dropped
NextDrop ==
    \/ GetStringSender
    \/ \E raw \in ParsableLines : Submit(raw)
    \/ DropSender
    \/ StartMainThread
    \/ ShutdownBegin
    \/ ShutdownJoin
    \/ DropPool
    \/ JoinMain
    \/ \E i \in 0 .. (MaxIoThreads - 1) : IoStep(i)
    \/ MainStep

SpecDrop == Init /\ [][NextDrop]_vars

\* C23 as claimed: the main thread never crashes, and no IO thread is ever Aborted.
C23_AsClaimed == \A i \in IoIds : ioStatus[i] # "Aborted"

\* C23: as long as the pool value is kept until shutdown is called, no send to
\* the main thread fails and no IO thread is Aborted: a started main thread is in
\* its receive loop while any IO thread is alive, and a main thread never started
\* stays in the pool, with its command_receiver, until shutdown has joined every
\* IO thread. Only a pool dropped without shutdown, with its main thread never
\* started, takes the receiver away from running IO threads.
C23_ReceiverOutlivesIoThreads ==
    /\ \A i \in IoIds :
           ioStatus[i] = "Aborted" =>
               poolState = "dropped" /\ main_thread = "Dropped" /\ main_spawned = 0
    /\ poolState # "dropped" /\ IoAlive # {} => CommandRxAlive
    /\ main_spawned = 1 /\ IoAlive # {} => mainPc = "recv"
    /\ main_thread = "Dropped" /\ poolState = "returned" => AllIoExited
    /\ poolState # "dropped" => Len(dispatched) + Cardinality(skipped) +
           Cardinality({e.line_number : e \in parse_errors}) =
               Cardinality({n \in LineNumbers : dequeued[n] # <<>>}) -
               Cardinality({i \in IoIds : ioPc[i] = "process"})

\* shutdown has returned, the main thread was never started, and every line sent
\* was dispatched by an IO thread that then ended on the disconnected channel
C23_Witness ==
    /\ poolState = "returned" /\ main_thread = "Dropped" /\ main_spawned = 0
    /\ Len(sent) > 0 /\ Len(dispatched) = Len(sent)
    /\ \A i \in IoIds : ioStatus[i] = "Closed"

\* the line numbers, in order, of the entries of a log that came through IO thread i
LinesVia(log, i) ==
    LET own == SelectSeq(log, LAMBDA e : e.io_thread_id = i)
    IN  [k \in DOMAIN own |-> own[k].line_number]

Increasing(ns) == \A a, b \in DOMAIN ns : a < b => ns[a] < ns[b]

\* C24: for any number of IO threads, the commands one IO thread dispatched are
\* sent, buffered and applied in the order their lines were submitted: the main
\* thread's log restricted to one IO thread has increasing line numbers and is
\* the beginning of what that IO thread dispatched. The log as a whole can be out
\* of submission order only when more than one IO thread contributed to it.
C24_SameIoThreadInOrder ==
    /\ \A i \in IoIds :
           /\ Increasing(LinesVia(dispatched, i))
           /\ Increasing(LinesVia(command_chan, i))
           /\ Increasing(LinesVia(main_log, i))
           /\ LinesVia(main_log, i) \o LinesVia(command_chan, i) = LinesVia(dispatched, i)
    /\ Cardinality({main_log[k].io_thread_id : k \in DOMAIN main_log}) <= 1 =>
           Increasing([k \in DOMAIN main_log |-> main_log[k].line_number])

\* of two IO threads one dispatched both lines, and both were applied in order
C24_Witness ==
    /\ numIo = 2
    /\ Len(main_log) = 2
    /\ main_log[1].io_thread_id = main_log[2].io_thread_id
    /\ main_log[1].line_number = 1 /\ main_log[2].line_number = 2

\* what the main thread has applied followed by what is still buffered for it
AppliedThenBuffered ==
    [k \in DOMAIN main_log |-> MessageOf(main_log[k])] \o command_chan

\* C25: the IO threads run from ThreadPool::new on. While the main thread has
\* not been started they still receive, parse and send, and every message sent is
\* kept in the command channel; starting the main thread changes nothing in the
\* channel; at all times what was applied followed by what is buffered is exactly
\* what was dispatched, so a main thread started late applies every message that
\* was buffered before its start once, and none is lost.
C25_LateStartLosesNothing ==
    /\ \A i \in IoIds : ioPc[i] = "lock"
    /\ [](main_thread = "Some" =>
              /\ command_chan = dispatched
              /\ main_log = <<>> /\ processed_count = 0
              /\ \A i \in IoIds : ioStatus[i] # "Aborted"
              /\ \A i \in IoIds : ioPc[i] = "lock" /\ Receiving = {} => ENABLED IoLock(i))
    /\ [][main_spawned' # main_spawned =>
              /\ command_chan' = command_chan /\ dispatched' = dispatched
              /\ string_chan' = string_chan /\ ioPc' = ioPc]_vars
    /\ [](AppliedThenBuffered = dispatched)
    /\ [](mainPc = "done" => Len(main_log) = Len(dispatched) /\ command_chan = <<>>)

\* the main thread has been started and has applied nothing yet, while both lines
\* sent are already buffered in the command channel and the IO threads are idle
C25_Witness ==
    /\ mainPc = "recv" /\ main_handle = "held" /\ poolState = "live"
    /\ processed_count = 0
    /\ Len(sent) = 2 /\ Len(command_chan) = 2
    /\ \A i \in IoIds : ioPc[i] \in {"lock", "recv"}

====
